---- MODULE Spec2Model ----
(***************************************************************************)
(* Statefulia: State (registry, persistence, event dispatch),              *)
(* StateElement (typed slot) and StateComponent (subscriber base class).   *)
(***************************************************************************)
EXTENDS Integers, Sequences, FiniteSets, TLC

VARIABLES
    config,        \* State._config: useChangeEvent, prefix, useRefetchOnFocus
    storage,       \* State._storage: Map key -> value
    elements,      \* State._elements: Map key -> StateElement, in insertion order
    localStorage,  \* the host's persistent store: storage key -> string
    listeners,     \* the State's EventTarget listener list, in registration order
    components,    \* the StateComponent instances constructed so far
    symCount,      \* symbols allocated by Symbol(...) during decoding, over all sessions
    eventLog,      \* the events dispatched on the State, in order
    hookLog,       \* the $onStateChange invocations observed, in order
    heldLog,       \* for each of them, what state.get(key) returned when it was made
    setLog,        \* the completed StateElement.set calls observed, in order
    accessed,      \* the getItem and setItem calls made by the operation performed last
    hooked,        \* the values onBeforeSet was called with by the operation performed last
    written,       \* storage key -> the value whose string was last persisted by State.set
    last,          \* the operation performed last and its outcome
    recording      \* whether the logs keep the whole session or the last operation

vars == << config, storage, elements, localStorage, listeners, components,
           symCount, eventLog, hookLog, heldLog, setLog, accessed, hooked,
           written, last, recording >>

----------------------------------------------------------------------------
(* Bounds of the model.                                                    *)

MaxSets == 3         \* completed sets kept in a recorded session
MaxComponents == 1   \* StateComponent constructions per State
MaxSymbols == 2      \* symbols allocated by decoding

----------------------------------------------------------------------------
(* Values. typeof is the kind field; n and s carry the payload.            *)

Num(n) == [kind |-> "number", n |-> n, s |-> ""]
NaN == [kind |-> "number", n |-> 0, s |-> "NaN"]
Bool(b) == [kind |-> "boolean", n |-> IF b THEN 1 ELSE 0, s |-> ""]
Str(s) == [kind |-> "string", n |-> 0, s |-> s]
BigInt(n) == [kind |-> "bigint", n |-> n, s |-> ""]
\* a symbol: n is its identity, s its description
Sym(id, desc) == [kind |-> "symbol", n |-> id, s |-> desc]
\* a plain-data object, named by its structure: "null", "{}", "{a:1}"
Obj(s) == [kind |-> "object", n |-> 0, s |-> s]
Undefined == [kind |-> "undefined", n |-> 0, s |-> ""]
Fn == [kind |-> "function", n |-> 0, s |-> ""]
\* a thrown Error, when returned in place of a value
Thrown(name) == [kind |-> "error", n |-> 0, s |-> name]

StorageValueType == {"bigint", "boolean", "symbol", "number", "object", "string"}

TypeOf(v) == v.kind

IsThrown(v) == v.kind = "error"

\* The integers whose decimal form the decoders recognise.
NumRange == 0..3

----------------------------------------------------------------------------
(* StorageCodec: State.valueToString and State.valueFromString.            *)

\* JSON.stringify on the modelled objects.
JSONstringify(v) ==
    CASE v.s = "null" -> "null"
      [] v.s = "{a:1}" -> "{\"a\":1}"
      [] OTHER -> "{}"

\* JSON.parse: JSON text decodes to the value it denotes (of whatever kind),
\* anything else throws SyntaxError.
JSONparse(str) ==
    CASE str = "null" -> Obj("null")
      [] str = "{}" -> Obj("{}")
      [] str = "{\"a\":1}" -> Obj("{a:1}")
      [] str = "true" -> Bool(TRUE)
      [] str = "false" -> Bool(FALSE)
      [] \E n \in NumRange : ToString(n) = str ->
            Num(CHOOSE n \in NumRange : ToString(n) = str)
      [] OTHER -> Thrown("SyntaxError")

\* Number.parseFloat on the modelled strings.
ParseFloat(str) ==
    IF \E n \in NumRange : ToString(n) = str
    THEN Num(CHOOSE n \in NumRange : ToString(n) = str)
    ELSE NaN

\* Number(string): as parseFloat on decimal text, but the empty string is 0.
ToNumber(str) ==
    IF str = "" THEN Num(0) ELSE ParseFloat(str)

\* Boolean(string): true for every non-empty string.
ToBoolean(str) == Bool(str # "")

valueToString(value) ==
    CASE value.kind = "bigint" -> ToString(value.n)
      [] value.kind = "boolean" -> IF value.n = 1 THEN "true" ELSE "false"
      [] value.kind = "symbol" -> "Symbol(" \o value.s \o ")"
      [] value.kind = "number" -> IF value.s = "NaN" THEN "NaN" ELSE ToString(value.n)
      [] value.kind = "object" -> JSONstringify(value)
      [] value.kind = "string" -> value.s
      [] OTHER -> "<throw>"

\* valueToString throws for the undefined and function kinds.
valueToStringThrows(value) == value.kind \notin StorageValueType

\* fresh: the identity the next Symbol(...) call allocates.
valueFromString(value, type, fresh) ==
    CASE type = "bigint" -> ToNumber(value)
      [] type = "boolean" -> ToBoolean(value)
      [] type = "symbol" -> Sym(fresh, value)
      [] type = "number" -> ParseFloat(value)
      [] type = "object" -> JSONparse(value)
      [] type = "string" -> Str(value)
      [] OTHER -> Thrown("Unsupported")

----------------------------------------------------------------------------
(* Configuration records.                                                  *)

\* State._config after merging the constructor argument (useLogs only prints).
StateConfig == [useChangeEvent : BOOLEAN, prefix : {"", "app"}, useRefetchOnFocus : BOOLEAN]

\* The onBeforeSet callbacks the application may supply: null (none), "clamp"
\* (a validator that keeps the kind: numbers above 1 become 1)
\* and "label" (a transform that returns a string whatever it is given).
BeforeSetHooks == {"null", "clamp", "label"}

onBeforeSet(hook, value) ==
    CASE hook = "clamp" ->
            IF value.kind = "number" /\ value.s = "" /\ value.n > 1
            THEN Num(1) ELSE value
      [] hook = "label" -> Str("x")
      [] OTHER -> value

\* StateElement._config after merging opts.config over the defaults.
StateElementConfig ==
    [useLocalStorage : BOOLEAN, useEvents : BOOLEAN,
     onBeforeSet : BeforeSetHooks, useRefetchOnFocus : BOOLEAN]

----------------------------------------------------------------------------
(* Lookups.                                                                *)

prefixKey(key) ==
    IF config.prefix = "" THEN key ELSE config.prefix \o "-" \o key

\* Map.get on State._elements.
HasElement(key) == \E i \in 1..Len(elements) : elements[i].key = key

ElementOf(key) == elements[CHOOSE i \in 1..Len(elements) : elements[i].key = key]

ElementKeys == {elements[i].key : i \in 1..Len(elements)}

\* State.get, on a given storage map.
MapGet(map, key) == IF key \in DOMAIN map THEN map[key] ELSE Undefined

State_get(key) == MapGet(storage, key)

\* One call on the persistent store: getItem(skey) or setItem(skey, ...).
Access(op, skey) == [op |-> op, skey |-> skey]

\* localStorage.getItem(...) !== null
HasItem(store, skey) == skey \in DOMAIN store

----------------------------------------------------------------------------
(* Event dispatch. An event is a channel name (its type) and a detail:     *)
(* either a bare value or the {key, value} object of the aggregate event.  *)

Plain(v) == [pair |-> FALSE, key |-> "", value |-> v]
Pair(k, v) == [pair |-> TRUE, key |-> k, value |-> v]

\* new CustomEvent(type, {detail})
Event(type, detail) == [type |-> type, detail |-> detail]

\* One $onStateChange(key, value) invocation on component comp.
HookCall(comp, key, value) == [comp |-> comp, key |-> key, value |-> value]

\* What one registered listener does with a dispatched event: the
\* $onStateChange invocation it makes, if any.
\* "element": the wrapper of StateElement.addListener around the component's
\*   closure (value) => this.$onStateChange(key, value).
\* "change": the aggregate handler, $onStateChange(detail.key, detail.value);
\*   reading a property of null throws inside the listener, which the
\*   dispatcher reports and does not propagate.
Invoke(l, detail) ==
    CASE l.handler = "element" -> << HookCall(l.comp, Str(l.key), detail) >>
      [] l.handler = "change" /\ detail.pair ->
            << HookCall(l.comp, Str(detail.key), Plain(detail.value)) >>
      [] l.handler = "change" /\ ~detail.pair /\ detail.value = Obj("null") -> << >>
      [] OTHER -> << HookCall(l.comp, Undefined, Plain(Undefined)) >>

----------------------------------------------------------------------------
(* The mutable part of the world the operations thread through. An         *)
(* operation starts from the logs of the session when it is recorded, and  *)
(* from empty logs otherwise.                                              *)

World ==
    [storage |-> storage, localStorage |-> localStorage,
     eventLog |-> IF recording THEN eventLog ELSE << >>,
     hookLog |-> IF recording THEN hookLog ELSE << >>,
     heldLog |-> IF recording THEN heldLog ELSE << >>,
     setLog |-> IF recording THEN setLog ELSE << >>,
     symCount |-> symCount, accessed |-> {}, hooked |-> {},
     written |-> written, err |-> ""]

RECURSIVE StateElement_set(_, _, _, _)

\* The body of $onStateChange(key, value) in the component's class, run on
\* the invocation call. "own" only observes. "setter" answers a number above
\* 1 with this.states[key].set(1); an exception thrown there (states[key]
\* undefined, a rejected set) ends the listener and goes no further.
onStateChange(w, call) ==
    LET comp == components[call.comp]
        delivered == call.value.value
    IN  IF /\ comp.cls = "setter"
           /\ call.key.kind = "string"
           /\ \E j \in 1..Len(comp.states) : comp.states[j] = call.key.s
           /\ ~call.value.pair
           /\ delivered.kind = "number" /\ delivered.s = "" /\ delivered.n > 1
        THEN [StateElement_set(w, ElementOf(call.key.s), Num(1), "hook") EXCEPT !.err = ""]
        ELSE w

\* One listener handling one event: the invocation is noted, together with
\* what state.get(key) returns at that moment, and the hook's body runs.
Deliver(w, l, detail) ==
    LET calls == Invoke(l, detail)
        call == calls[1]
        held == IF call.key.kind = "string" THEN MapGet(w.storage, call.key.s)
                ELSE Undefined
    IN  IF calls = << >> THEN w
        ELSE onStateChange([w EXCEPT !.hookLog = Append(@, call),
                                     !.heldLog = Append(@, held)], call)

RECURSIVE DispatchFrom(_, _, _, _)
DispatchFrom(w, i, type, detail) ==
    IF i > Len(listeners) THEN w
    ELSE DispatchFrom(IF listeners[i].type = type THEN Deliver(w, listeners[i], detail) ELSE w,
                      i + 1, type, detail)

\* Mutant of dispatchEvent: every listener gets every event, whatever its type.
RECURSIVE BroadcastFrom(_, _, _)
BroadcastFrom(w, i, detail) ==
    IF i > Len(listeners) THEN w
    ELSE BroadcastFrom(Deliver(w, listeners[i], detail), i + 1, detail)

dispatchEvent_broadcast(w, type, detail) ==
    BroadcastFrom([w EXCEPT !.eventLog = Append(@, Event(type, detail))], 1, detail)

\* EventTarget.dispatchEvent: the listeners of the event's type, in
\* registration order, synchronously.
dispatchEvent(w, type, detail) ==
    DispatchFrom([w EXCEPT !.eventLog = Append(@, Event(type, detail))], 1, type, detail)

\* Mutant of State_set: the per-key event is never dispatched.
State_set_nokeyevent(w, key, value, cfg) ==
    LET w1 == [w EXCEPT !.storage = (key :> value) @@ w.storage]
        skey == prefixKey(key)
        w2 == IF cfg.useLocalStorage
              THEN [w1 EXCEPT !.localStorage = (skey :> valueToString(value)) @@ w1.localStorage,
                              !.accessed = @ \cup {Access("setItem", skey)},
                              !.written = (skey :> value) @@ w1.written]
              ELSE w1
        w4 == IF config.useChangeEvent
              THEN dispatchEvent(w2, "change", Pair(key, value)) ELSE w2
    IN  IF cfg.useLocalStorage /\ valueToStringThrows(value)
        THEN [w1 EXCEPT !.err = "Unsupported"]
        ELSE IF cfg.useEvents THEN w4 ELSE w2

\* Mutant of State_set: the events carry the value the slot held before.
State_set_stale(w, key, value, cfg) ==
    LET w1 == [w EXCEPT !.storage = (key :> value) @@ w.storage]
        skey == prefixKey(key)
        w2 == IF cfg.useLocalStorage
              THEN [w1 EXCEPT !.localStorage = (skey :> valueToString(value)) @@ w1.localStorage,
                              !.accessed = @ \cup {Access("setItem", skey)},
                              !.written = (skey :> value) @@ w1.written]
              ELSE w1
        w3 == dispatchEvent(w2, key, Plain(MapGet(w.storage, key)))
        w4 == IF config.useChangeEvent
              THEN dispatchEvent(w3, "change", Pair(key, MapGet(w.storage, key))) ELSE w3
    IN  IF cfg.useLocalStorage /\ valueToStringThrows(value)
        THEN [w1 EXCEPT !.err = "Unsupported"]
        ELSE IF cfg.useEvents THEN w4 ELSE w2

\* Mutant of State_set: the aggregate event does not depend on the slot's
\* useEvents.
State_set_changealways(w, key, value, cfg) ==
    LET w1 == [w EXCEPT !.storage = (key :> value) @@ w.storage]
        skey == prefixKey(key)
        w2 == IF cfg.useLocalStorage
              THEN [w1 EXCEPT !.localStorage = (skey :> valueToString(value)) @@ w1.localStorage,
                              !.accessed = @ \cup {Access("setItem", skey)},
                              !.written = (skey :> value) @@ w1.written]
              ELSE w1
        w3 == IF cfg.useEvents THEN dispatchEvent(w2, key, Plain(value)) ELSE w2
        w4 == IF config.useChangeEvent
              THEN dispatchEvent(w3, "change", Pair(key, value)) ELSE w3
    IN  IF cfg.useLocalStorage /\ valueToStringThrows(value)
        THEN [w1 EXCEPT !.err = "Unsupported"]
        ELSE w4

\* Mutant of State_set: the aggregate event is dispatched only for a slot
\* that was set before.
State_set_latechange(w, key, value, cfg) ==
    LET w1 == [w EXCEPT !.storage = (key :> value) @@ w.storage]
        skey == prefixKey(key)
        w2 == IF cfg.useLocalStorage
              THEN [w1 EXCEPT !.localStorage = (skey :> valueToString(value)) @@ w1.localStorage,
                              !.accessed = @ \cup {Access("setItem", skey)},
                              !.written = (skey :> value) @@ w1.written]
              ELSE w1
        w3 == dispatchEvent(w2, key, Plain(value))
        w4 == IF config.useChangeEvent /\ MapGet(w.storage, key) # value
              THEN dispatchEvent(w3, "change", Pair(key, value)) ELSE w3
    IN  IF cfg.useLocalStorage /\ valueToStringThrows(value)
        THEN [w1 EXCEPT !.err = "Unsupported"]
        ELSE IF cfg.useEvents THEN w4 ELSE w2

\* State.set(key, value, config)
State_set(w, key, value, cfg) ==
    LET w1 == [w EXCEPT !.storage = (key :> value) @@ w.storage]
        skey == prefixKey(key)
        w2 == IF cfg.useLocalStorage
              THEN [w1 EXCEPT !.localStorage = (skey :> valueToString(value)) @@ w1.localStorage,
                              !.accessed = @ \cup {Access("setItem", skey)},
                              !.written = (skey :> value) @@ w1.written]
              ELSE w1
        w3 == dispatchEvent(w2, key, Plain(value))
        w4 == IF config.useChangeEvent
              THEN dispatchEvent(w3, "change", Pair(key, value)) ELSE w3
    IN  IF cfg.useLocalStorage /\ valueToStringThrows(value)
        THEN [w1 EXCEPT !.err = "Unsupported"]
        ELSE IF cfg.useEvents THEN w4 ELSE w2

\* if (this._config.onBeforeSet) value = this._config.onBeforeSet(value):
\* the call is noted when there is a hook.
Hooked(w, el, value) ==
    IF el.config.onBeforeSet = "null" THEN w
    ELSE [w EXCEPT !.hooked = @ \cup {value}]

\* Mutant of StateElement_set: the typeof check is made when State.set has
\* returned.
StateElement_set_latecheck(w, el, value, via) ==
    LET stored == onBeforeSet(el.config.onBeforeSet, value)
        w1 == State_set(Hooked(w, el, value), el.key, stored, el.config)
    IN  IF w1.err # "" THEN w1
        ELSE IF TypeOf(value) # el.type
        THEN [w1 EXCEPT !.err = "TypeMismatch"]
        ELSE [w1 EXCEPT !.setLog = Append(w1.setLog,
                   [key |-> el.key, value |-> value, stored |-> stored, via |-> via,
                    from |-> Len(w.hookLog), to |-> Len(w1.hookLog),
                    efrom |-> Len(w.eventLog), eto |-> Len(w1.eventLog)])]

\* Mutant of StateElement_set: the typeof check is made on the hook's result.
StateElement_set_checkafter(w, el, value, via) ==
    LET stored == onBeforeSet(el.config.onBeforeSet, value)
        w1 == State_set(Hooked(w, el, value), el.key, stored, el.config)
    IN  IF TypeOf(stored) # el.type
        THEN [Hooked(w, el, value) EXCEPT !.err = "TypeMismatch"]
        ELSE IF w1.err # "" THEN w1
        ELSE [w1 EXCEPT !.setLog = Append(w1.setLog,
                   [key |-> el.key, value |-> value, stored |-> stored, via |-> via,
                    from |-> Len(w.hookLog), to |-> Len(w1.hookLog),
                    efrom |-> Len(w.eventLog), eto |-> Len(w1.eventLog)])]

\* Mutant of StateElement_set: the typeof check is missing.
StateElement_set_unchecked(w, el, value, via) ==
    LET stored == onBeforeSet(el.config.onBeforeSet, value)
        w1 == State_set(Hooked(w, el, value), el.key, stored, el.config)
    IN  IF w1.err # "" THEN w1
        ELSE [w1 EXCEPT !.setLog = Append(w1.setLog,
                   [key |-> el.key, value |-> value, stored |-> stored, via |-> via,
                    from |-> Len(w.hookLog), to |-> Len(w1.hookLog),
                    efrom |-> Len(w.eventLog), eto |-> Len(w1.eventLog)])]

\* StateElement.set(value); via names the caller (set, reset, focus, hook).
\* A completed set is entered in setLog when it returns, with the parts of
\* the logs written while it ran.
StateElement_set(w, el, value, via) ==
    IF TypeOf(value) # el.type
    THEN [w EXCEPT !.err = "TypeMismatch"]
    ELSE LET stored == onBeforeSet(el.config.onBeforeSet, value)
             w1 == State_set(Hooked(w, el, value), el.key, stored, el.config)
         IN  IF w1.err # "" THEN w1
             ELSE [w1 EXCEPT !.setLog = Append(w1.setLog,
                        [key |-> el.key, value |-> value, stored |-> stored, via |-> via,
                         from |-> Len(w.hookLog), to |-> Len(w1.hookLog),
                         efrom |-> Len(w.eventLog), eto |-> Len(w1.eventLog)])]

\* Mutant of StateElement_reset: the default goes to State.set directly,
\* past the element's own set.
StateElement_reset_direct(w, el) == State_set(w, el.key, el.defaultValue, el.config)

\* StateElement.reset()
StateElement_reset(w, el) == StateElement_set(w, el, el.defaultValue, "reset")

----------------------------------------------------------------------------
(* Operation records.                                                      *)

\* emark, hmark, smark: the lengths of eventLog, hookLog and setLog when the
\* operation began.
Op(op, key, err, value, comp) ==
    [op |-> op, key |-> key, err |-> err, value |-> value, comp |-> comp,
     emark |-> IF recording THEN Len(eventLog) ELSE 0,
     hmark |-> IF recording THEN Len(hookLog) ELSE 0,
     smark |-> IF recording THEN Len(setLog) ELSE 0]

NoOp == [op |-> "new", key |-> "", err |-> "", value |-> Undefined, comp |-> 0,
         emark |-> 0, hmark |-> 0, smark |-> 0]

\* Write a threaded world back into the state.
Commit(w) ==
    /\ storage' = w.storage
    /\ localStorage' = w.localStorage
    /\ eventLog' = w.eventLog
    /\ hookLog' = w.hookLog
    /\ heldLog' = w.heldLog
    /\ symCount' = w.symCount
    /\ accessed' = w.accessed
    /\ hooked' = w.hooked
    /\ written' = w.written
    /\ setLog' = w.setLog

\* An operation that throws before it changes anything.
Rejected(op, key, err, value) ==
    /\ last' = Op(op, key, err, value, 0)
    /\ accessed' = {}
    /\ hooked' = {}
    /\ eventLog' = World.eventLog
    /\ hookLog' = World.hookLog
    /\ heldLog' = World.heldLog
    /\ setLog' = World.setLog
    /\ UNCHANGED << config, storage, elements, localStorage, listeners,
                    components, symCount, written, recording >>

----------------------------------------------------------------------------
(* State.                                                                  *)

\* new State(cfg): empty registry over the persistent store as it is.
State_constructor(cfg) ==
    /\ config = cfg
    /\ storage = << >>
    /\ elements = << >>
    /\ listeners = << >>
    /\ components = << >>
    /\ symCount = 0
    /\ accessed = {}
    /\ hooked = {}
    /\ eventLog = << >>
    /\ hookLog = << >>
    /\ heldLog = << >>
    /\ setLog = << >>
    /\ last = NoOp

\* Mutant of State_init: the initial value is stored but not persisted.
State_init_nopersist(key, defaultValue, cfg) ==
    LET type == TypeOf(defaultValue)
        skey == prefixKey(key)
        load == cfg.useLocalStorage /\ HasItem(localStorage, skey)
        value == IF load THEN valueFromString(localStorage[skey], type, symCount + 1)
                 ELSE defaultValue
        read == IF cfg.useLocalStorage
                THEN [World EXCEPT !.accessed = {Access("getItem", skey)}] ELSE World
        w0 == IF load /\ type = "symbol"
              THEN [read EXCEPT !.symCount = symCount + 1] ELSE read
        w == State_set(w0, key, value,
                       [cfg EXCEPT !.useEvents = FALSE, !.useLocalStorage = FALSE])
        element == [key |-> key, defaultValue |-> defaultValue, type |-> type, config |-> cfg]
    IN  IF HasElement(key)
        THEN Rejected("init", key, "AlreadyInitialized", Undefined)
        ELSE IF type = "function" \/ type = "undefined"
        THEN Rejected("init", key, "Unsupported", Undefined)
        ELSE IF IsThrown(value)
        THEN /\ Commit(read)
             /\ last' = Op("init", key, value.s, Undefined, 0)
             /\ UNCHANGED << config, elements, listeners, components, recording >>
        ELSE /\ Commit([w EXCEPT !.err = ""])
             /\ elements' = IF w.err = "" THEN Append(elements, element) ELSE elements
             /\ last' = Op("init", key, w.err, value, 0)
             /\ UNCHANGED << config, listeners, components, recording >>

\* Mutant of State_init: the slot's useEvents is not suppressed.
State_init_events(key, defaultValue, cfg) ==
    LET type == TypeOf(defaultValue)
        skey == prefixKey(key)
        load == cfg.useLocalStorage /\ HasItem(localStorage, skey)
        value == IF load THEN valueFromString(localStorage[skey], type, symCount + 1)
                 ELSE defaultValue
        read == IF cfg.useLocalStorage
                THEN [World EXCEPT !.accessed = {Access("getItem", skey)}] ELSE World
        w0 == IF load /\ type = "symbol"
              THEN [read EXCEPT !.symCount = symCount + 1] ELSE read
        w == State_set(w0, key, value, cfg)
        element == [key |-> key, defaultValue |-> defaultValue, type |-> type, config |-> cfg]
    IN  IF HasElement(key)
        THEN Rejected("init", key, "AlreadyInitialized", Undefined)
        ELSE IF type = "function" \/ type = "undefined"
        THEN Rejected("init", key, "Unsupported", Undefined)
        ELSE IF IsThrown(value)
        THEN /\ Commit(read)
             /\ last' = Op("init", key, value.s, Undefined, 0)
             /\ UNCHANGED << config, elements, listeners, components, recording >>
        ELSE /\ Commit([w EXCEPT !.err = ""])
             /\ elements' = IF w.err = "" THEN Append(elements, element) ELSE elements
             /\ last' = Op("init", key, w.err, value, 0)
             /\ UNCHANGED << config, listeners, components, recording >>

\* Mutant of State_init: a registered key is initialized again.
State_init_again(key, defaultValue, cfg) ==
    LET type == TypeOf(defaultValue)
        skey == prefixKey(key)
        load == cfg.useLocalStorage /\ HasItem(localStorage, skey)
        value == IF load THEN valueFromString(localStorage[skey], type, symCount + 1)
                 ELSE defaultValue
        read == IF cfg.useLocalStorage
                THEN [World EXCEPT !.accessed = {Access("getItem", skey)}] ELSE World
        w0 == IF load /\ type = "symbol"
              THEN [read EXCEPT !.symCount = symCount + 1] ELSE read
        w == State_set(w0, key, value, [cfg EXCEPT !.useEvents = FALSE])
        element == [key |-> key, defaultValue |-> defaultValue, type |-> type, config |-> cfg]
    IN  IF type = "function" \/ type = "undefined"
        THEN Rejected("init", key, "Unsupported", Undefined)
        ELSE IF IsThrown(value)
        THEN /\ Commit(read)
             /\ last' = Op("init", key, value.s, Undefined, 0)
             /\ UNCHANGED << config, elements, listeners, components, recording >>
        ELSE /\ Commit([w EXCEPT !.err = ""])
             /\ elements' = IF w.err = "" THEN Append(elements, element) ELSE elements
             /\ last' = Op("init", key, w.err, value, 0)
             /\ UNCHANGED << config, listeners, components, recording >>

\* State.init(key, {defaultValue, config: cfg})
State_init(key, defaultValue, cfg) ==
    LET type == TypeOf(defaultValue)
        skey == prefixKey(key)
        load == cfg.useLocalStorage /\ HasItem(localStorage, skey)
        value == IF load THEN valueFromString(localStorage[skey], type, symCount + 1)
                 ELSE defaultValue
        read == IF cfg.useLocalStorage
                THEN [World EXCEPT !.accessed = {Access("getItem", skey)}] ELSE World
        w0 == IF load /\ type = "symbol"
              THEN [read EXCEPT !.symCount = symCount + 1] ELSE read
        w == State_set(w0, key, value, [cfg EXCEPT !.useEvents = FALSE])
        element == [key |-> key, defaultValue |-> defaultValue, type |-> type, config |-> cfg]
    IN  IF HasElement(key)
        THEN Rejected("init", key, "AlreadyInitialized", Undefined)
        ELSE IF type = "function" \/ type = "undefined"
        THEN Rejected("init", key, "Unsupported", Undefined)
        ELSE IF IsThrown(value)
        THEN /\ Commit(read)
             /\ last' = Op("init", key, value.s, Undefined, 0)
             /\ UNCHANGED << config, elements, listeners, components, recording >>
        ELSE /\ Commit([w EXCEPT !.err = ""])
             /\ elements' = IF w.err = "" THEN Append(elements, element) ELSE elements
             /\ last' = Op("init", key, w.err, value, 0)
             /\ UNCHANGED << config, listeners, components, recording >>

\* State.attach(key)
State_attach(key) ==
    /\ last' = Op("attach", key, IF HasElement(key) THEN "" ELSE "NotInitialized",
                  Undefined, 0)
    /\ accessed' = {}
    /\ hooked' = {}
    /\ eventLog' = World.eventLog
    /\ hookLog' = World.hookLog
    /\ heldLog' = World.heldLog
    /\ setLog' = World.setLog
    /\ UNCHANGED << config, storage, elements, localStorage, listeners,
                    components, symCount, written, recording >>

\* Mutant of FocusFrom: the slot's own useRefetchOnFocus is not consulted.
RECURSIVE FocusFrom_everyslot(_, _)
FocusFrom_everyslot(w, i) ==
    IF i > Len(elements) THEN w
    ELSE LET element == elements[i]
             skey == prefixKey(element.key)
             decoded == valueFromString(w.localStorage[skey], element.type, w.symCount + 1)
             read == [w EXCEPT !.accessed = @ \cup {Access("getItem", skey)}]
             w0 == IF element.type = "symbol"
                   THEN [read EXCEPT !.symCount = w.symCount + 1] ELSE read
             w1 == StateElement_set(w0, element, decoded, "focus")
         IN  IF element.config.useLocalStorage
             THEN IF ~HasItem(w.localStorage, skey) \/ IsThrown(decoded)
                  THEN FocusFrom_everyslot(read, i + 1)
                  ELSE FocusFrom_everyslot([w1 EXCEPT !.err = ""], i + 1)
             ELSE FocusFrom_everyslot(w, i + 1)

\* Mutant of FocusFrom: nothing catches a failure, which ends the pass.
RECURSIVE FocusFrom_uncaught(_, _)
FocusFrom_uncaught(w, i) ==
    IF i > Len(elements) THEN w
    ELSE LET element == elements[i]
             skey == prefixKey(element.key)
             decoded == valueFromString(w.localStorage[skey], element.type, w.symCount + 1)
             read == [w EXCEPT !.accessed = @ \cup {Access("getItem", skey)}]
             w0 == IF element.type = "symbol"
                   THEN [read EXCEPT !.symCount = w.symCount + 1] ELSE read
             w1 == StateElement_set(w0, element, decoded, "focus")
         IN  IF element.config.useLocalStorage /\ element.config.useRefetchOnFocus
             THEN IF ~HasItem(w.localStorage, skey)
                  THEN FocusFrom_uncaught(read, i + 1)
                  ELSE IF IsThrown(decoded) THEN [read EXCEPT !.err = decoded.s]
                  ELSE IF w1.err # "" THEN w1
                  ELSE FocusFrom_uncaught(w1, i + 1)
             ELSE FocusFrom_uncaught(w, i + 1)

\* The window "focus" listener registered by the constructor: element i
\* onward. The try block holds the decoding and the set; what it catches is
\* logged and the loop goes on.
RECURSIVE FocusFrom(_, _)
FocusFrom(w, i) ==
    IF i > Len(elements) THEN w
    ELSE LET element == elements[i]
             skey == prefixKey(element.key)
             decoded == valueFromString(w.localStorage[skey], element.type, w.symCount + 1)
             read == [w EXCEPT !.accessed = @ \cup {Access("getItem", skey)}]
             w0 == IF element.type = "symbol"
                   THEN [read EXCEPT !.symCount = w.symCount + 1] ELSE read
             w1 == StateElement_set(w0, element, decoded, "focus")
         IN  IF element.config.useLocalStorage /\ element.config.useRefetchOnFocus
             THEN IF ~HasItem(w.localStorage, skey) \/ IsThrown(decoded)
                  THEN FocusFrom(read, i + 1)
                  ELSE FocusFrom([w1 EXCEPT !.err = ""], i + 1)
             ELSE FocusFrom(w, i + 1)

\* The window gains focus: the listener runs if the constructor registered
\* it, that is if the State's own useRefetchOnFocus was set.
onFocus ==
    /\ LET w == IF config.useRefetchOnFocus THEN FocusFrom(World, 1) ELSE World
       IN  /\ Commit([w EXCEPT !.err = ""])
           /\ last' = Op("focus", "", w.err, Undefined, 0)
    /\ UNCHANGED << config, elements, listeners, components, recording >>

\* Another page of the same origin, running a State with the same prefix,
\* sets value on its slot key with useLocalStorage: the string of the value
\* replaces what the store held under the prefixed key.
OtherPage_set(key, value) ==
    /\ ~valueToStringThrows(value)
    /\ localStorage' = (prefixKey(key) :> valueToString(value)) @@ localStorage
    /\ written' = (prefixKey(key) :> value) @@ written
    /\ last' = Op("write", key, "", value, 0)
    /\ accessed' = {}
    /\ hooked' = {}
    /\ eventLog' = World.eventLog
    /\ hookLog' = World.hookLog
    /\ heldLog' = World.heldLog
    /\ setLog' = World.setLog
    /\ UNCHANGED << config, storage, elements, listeners, components, symCount, recording >>

----------------------------------------------------------------------------
(* StateElement, called by the application on a registered element.        *)

Element_set(key, value) ==
    /\ HasElement(key)
    /\ LET w == StateElement_set(World, ElementOf(key), value, "set")
       IN  /\ Commit([w EXCEPT !.err = ""])
           /\ last' = Op("set", key, w.err, value, 0)
    /\ UNCHANGED << config, elements, listeners, components, recording >>

Element_reset(key) ==
    /\ HasElement(key)
    /\ LET w == StateElement_reset(World, ElementOf(key))
       IN  /\ Commit([w EXCEPT !.err = ""])
           /\ last' = Op("reset", key, w.err, Undefined, 0)
    /\ UNCHANGED << config, elements, listeners, components, recording >>

----------------------------------------------------------------------------
(* StateComponent.                                                         *)

\* How the constructing class relates to $onStateChange: "own" and "setter"
\* define it themselves, "base" leaves StateComponent's default in place,
\* "inherited" extends a class that defines it and "assigned" gives the
\* instance a hook of its own once super() has returned.
ComponentClasses == {"own", "setter", "base", "inherited", "assigned"}

\* Mutant of Overrides: the hook is looked up along the prototype chain.
Overrides_inchain(cls) == cls \in {"own", "setter", "inherited"}

\* prototype.hasOwnProperty("$onStateChange")
Overrides(cls) == cls \in {"own", "setter"}

ElementListener(c, key) == [type |-> key, comp |-> c, handler |-> "element", key |-> key]
ChangeListener(c) == [type |-> "change", comp |-> c, handler |-> "change", key |-> ""]

\* The constructor's loop over the keys to bind, from position i: each key is
\* attached (which throws for an unregistered key), entered into states and,
\* when the hook is overridden, given a listener of its own.
RECURSIVE BindFrom(_, _, _, _, _)
BindFrom(acc, keys, i, c, overrides) ==
    IF i > Len(keys) THEN acc
    ELSE IF ~HasElement(keys[i]) THEN [acc EXCEPT !.err = "NotInitialized"]
    ELSE BindFrom(
            [acc EXCEPT
                !.states = IF \E j \in 1..Len(@) : @[j] = keys[i]
                           THEN @ ELSE Append(@, keys[i]),
                !.listeners = IF overrides
                              THEN Append(@, ElementListener(c, keys[i])) ELSE @],
            keys, i + 1, c, overrides)

ElementKeySeq == [i \in 1..Len(elements) |-> elements[i].key]

\* Mutant of StateComponent_constructor: a falsy argument binds every slot,
\* as true does.
StateComponent_constructor_bindall(cls, mode, keys) ==
    LET c == Len(components) + 1
        overrides == Overrides(cls)
        start == [states |-> << >>, listeners |-> listeners, err |-> ""]
        bound == CASE mode = "list" -> BindFrom(start, keys, 1, c, overrides)
                   [] OTHER -> BindFrom(start, ElementKeySeq, 1, c, overrides)
    IN  /\ listeners' = bound.listeners
        /\ components' = Append(components,
                [states |-> bound.states, mode |-> mode, cls |-> cls,
                 constructed |-> bound.err = "", known |-> ElementKeys,
                 given |-> IF mode = "all" THEN ElementKeySeq ELSE keys,
                 hmark |-> Len(World.hookLog), smark |-> Len(World.setLog)])
        /\ last' = Op("component", "", bound.err, Undefined, c)
        /\ accessed' = {}
        /\ hooked' = {}
        /\ eventLog' = World.eventLog
        /\ hookLog' = World.hookLog
        /\ heldLog' = World.heldLog
        /\ setLog' = World.setLog
        /\ UNCHANGED << config, storage, elements, localStorage, symCount,
                        written, recording >>

\* new (class extends StateComponent)(state, elements): mode "all" is
\* elements === true, "list" an array of keys, "none" a falsy argument.
\* The record of the component keeps, besides states, what is known of its
\* construction: the keys registered then (known), the keys the constructor
\* was given (given) and the lengths of the logs then (hmark, smark).
StateComponent_constructor(cls, mode, keys) ==
    LET c == Len(components) + 1
        overrides == Overrides(cls)
        start == [states |-> << >>, listeners |-> listeners, err |-> ""]
        bound == CASE mode = "all" -> BindFrom(start, ElementKeySeq, 1, c, overrides)
                   [] mode = "list" -> BindFrom(start, keys, 1, c, overrides)
                   [] OTHER -> IF overrides
                               THEN [start EXCEPT !.listeners = Append(@, ChangeListener(c))]
                               ELSE start
    IN  /\ listeners' = bound.listeners
        /\ components' = Append(components,
                [states |-> bound.states, mode |-> mode, cls |-> cls,
                 constructed |-> bound.err = "", known |-> ElementKeys,
                 given |-> IF mode = "all" THEN ElementKeySeq ELSE keys,
                 hmark |-> Len(World.hookLog), smark |-> Len(World.setLog)])
        /\ last' = Op("component", "", bound.err, Undefined, c)
        /\ accessed' = {}
        /\ hooked' = {}
        /\ eventLog' = World.eventLog
        /\ hookLog' = World.hookLog
        /\ heldLog' = World.heldLog
        /\ setLog' = World.setLog
        /\ UNCHANGED << config, storage, elements, localStorage, symCount,
                        written, recording >>

\* $resetAll(): reset() on every bound element, in the order of Object.keys
\* (insertion order, the keys not being integer-like).
RECURSIVE ResetFrom(_, _, _)
ResetFrom(w, states, i) ==
    IF i > Len(states) \/ w.err # "" THEN w
    ELSE ResetFrom(StateElement_reset(w, ElementOf(states[i])), states, i + 1)

\* Mutant of resetAll: every registered element is reset.
resetAll_registry(c) ==
    /\ c \in 1..Len(components)
    /\ components[c].constructed
    /\ LET w == ResetFrom(World, ElementKeySeq, 1)
       IN  /\ Commit([w EXCEPT !.err = ""])
           /\ last' = Op("resetAll", "", w.err, Undefined, c)
    /\ UNCHANGED << config, elements, listeners, components, recording >>

resetAll(c) ==
    /\ c \in 1..Len(components)
    /\ components[c].constructed
    /\ LET w == ResetFrom(World, components[c].states, 1)
       IN  /\ Commit([w EXCEPT !.err = ""])
           /\ last' = Op("resetAll", "", w.err, Undefined, c)
    /\ UNCHANGED << config, elements, listeners, components, recording >>

----------------------------------------------------------------------------
(* A page reload: a fresh State over the persistent store left behind.     *)

Reload(cfg) ==
    /\ config' = cfg
    /\ storage' = << >>
    /\ elements' = << >>
    /\ listeners' = << >>
    /\ components' = << >>
    /\ accessed' = {}
    /\ hooked' = {}
    /\ eventLog' = << >>
    /\ hookLog' = << >>
    /\ heldLog' = << >>
    /\ setLog' = << >>
    /\ last' = [NoOp EXCEPT !.op = "reload"]
    /\ UNCHANGED << localStorage, written, symCount, recording >>

\* What the operation performed last did.
LastEvents == SubSeq(eventLog, last.emark + 1, Len(eventLog))
LastCalls == SubSeq(hookLog, last.hmark + 1, Len(hookLog))
LastSets == SubSeq(setLog, last.smark + 1, Len(setLog))

----------------------------------------------------------------------------
(* Specification Spec: number slots with and without events and hook, one  *)
(* of them keyed like the aggregate channel, and components bound to a key *)
(* list or to all slots.                                                   *)

Keys == {"a", "change"}

Defaults == {Num(2)}

SetValues == {Num(3), Str("x")}

SlotConfigs ==
    [useLocalStorage : {FALSE}, useEvents : BOOLEAN,
     onBeforeSet : {"null", "clamp"}, useRefetchOnFocus : {TRUE}]

StateConfigs ==
    [useChangeEvent : BOOLEAN, prefix : {""}, useRefetchOnFocus : {TRUE}]

KeyLists == {<<"a">>, <<"a", "change">>, <<"a", "a">>}

Init ==
    /\ \E cfg \in StateConfigs : State_constructor(cfg)
    /\ localStorage = << >>
    /\ written = << >>
    /\ recording = FALSE

DoInit == \E key \in Keys, d \in Defaults, cfg \in SlotConfigs : State_init(key, d, cfg)
DoSet == \E key \in Keys, v \in SetValues : Element_set(key, v)
DoReset == \E key \in Keys : Element_reset(key)
Classes == {"own"}

DoComponent ==
    /\ Len(components) < MaxComponents
    /\ \/ \E cls \in Classes : StateComponent_constructor(cls, "all", << >>)
       \/ \E cls \in Classes, keys \in KeyLists :
            StateComponent_constructor(cls, "list", keys)
       \/ \E cls \in Classes : StateComponent_constructor(cls, "none", << >>)
DoResetAll == \E c \in 1..Len(components) : resetAll(c)

Next ==
    \/ DoInit
    \/ DoSet
    \/ DoReset
    \/ DoComponent
    \/ DoResetAll

Spec == Init /\ [][Next]_vars
----------------------------------------------------------------------------
(* Specification SpecPersist: one slot of any kind, persisted or not, with *)
(* any hook; sets, resets, focus events and page reloads under one prefix. *)

PersistKeys == {"a"}

PersistDefaults ==
    {Num(2), Bool(TRUE), Str("x"), Obj("{a:1}"), BigInt(1), Sym(0, "s"), Undefined, Fn}

PersistValues ==
    {Num(1), Num(3), Bool(FALSE), Str(""), Obj("null"), BigInt(2), Sym(0, "s"), Undefined}

PersistStateConfigs ==
    [useChangeEvent : {FALSE}, prefix : {"app"}, useRefetchOnFocus : BOOLEAN]

PersistSlotConfigs ==
    [useLocalStorage : BOOLEAN, useEvents : {FALSE},
     onBeforeSet : {"null", "clamp"}, useRefetchOnFocus : BOOLEAN]

PersistInit ==
    /\ \E cfg \in PersistStateConfigs : State_constructor(cfg)
    /\ localStorage = << >>
    /\ written = << >>
    /\ recording = FALSE

PersistDoInit ==
    /\ symCount < MaxSymbols
    /\ \E key \in PersistKeys, d \in PersistDefaults, cfg \in PersistSlotConfigs :
            State_init(key, d, cfg)
PersistDoSet == \E key \in PersistKeys, v \in PersistValues : Element_set(key, v)
PersistDoReset == \E key \in PersistKeys : Element_reset(key)
PersistDoFocus == symCount < MaxSymbols /\ onFocus
PersistDoReload == \E cfg \in PersistStateConfigs : Reload(cfg)

PersistNext ==
    \/ PersistDoInit
    \/ PersistDoSet
    \/ PersistDoReset
    \/ PersistDoFocus
    \/ PersistDoReload

SpecPersist == PersistInit /\ [][PersistNext]_vars
----------------------------------------------------------------------------
(* Specification SpecRegistry: two slots, persisted or not, with or        *)
(* without a hook, registered, attached, set and reset through components. *)

RegistryKeys == {"a", "b"}

RegistryDefaults == {Num(2), Undefined}

RegistryValues == {Num(3)}

RegistrySlotConfigs ==
    [useLocalStorage : BOOLEAN, useEvents : {TRUE},
     onBeforeSet : {"null", "clamp"}, useRefetchOnFocus : {TRUE}]

RegistryStateConfigs ==
    [useChangeEvent : {TRUE}, prefix : {"", "app"}, useRefetchOnFocus : {TRUE}]

RegistryKeyLists == {<<"a">>, <<"b", "a">>}

RegistryInit ==
    /\ \E cfg \in RegistryStateConfigs : State_constructor(cfg)
    /\ localStorage = << >>
    /\ written = << >>
    /\ recording = FALSE

RegistryDoInit ==
    \E key \in RegistryKeys, d \in RegistryDefaults, cfg \in RegistrySlotConfigs :
        State_init(key, d, cfg)
RegistryDoAttach == \E key \in RegistryKeys : State_attach(key)
RegistryDoSet == \E key \in RegistryKeys, v \in RegistryValues : Element_set(key, v)
RegistryDoComponent ==
    /\ Len(components) < MaxComponents
    /\ \/ StateComponent_constructor("own", "all", << >>)
       \/ \E keys \in RegistryKeyLists : StateComponent_constructor("own", "list", keys)
RegistryDoResetAll == \E c \in 1..Len(components) : resetAll(c)

RegistryNext ==
    \/ RegistryDoInit
    \/ RegistryDoAttach
    \/ RegistryDoSet
    \/ RegistryDoComponent
    \/ RegistryDoResetAll

SpecRegistry == RegistryInit /\ [][RegistryNext]_vars

----------------------------------------------------------------------------
(* Specification SpecAggregate: three slots, one of them keyed like the    *)
(* aggregate channel, and components constructed without an argument.      *)

AggregateKeys == {"a", "b", "change"}

AggregateDefaults == {Num(2)}

AggregateValues == {Num(3)}

AggregateSlotConfigs ==
    [useLocalStorage : {FALSE}, useEvents : BOOLEAN,
     onBeforeSet : {"null", "clamp"}, useRefetchOnFocus : {TRUE}]

AggregateStateConfigs ==
    [useChangeEvent : BOOLEAN, prefix : {""}, useRefetchOnFocus : {TRUE}]

AggregateInit ==
    /\ \E cfg \in AggregateStateConfigs : State_constructor(cfg)
    /\ localStorage = << >>
    /\ written = << >>
    /\ recording = FALSE

AggregateDoInit ==
    \E key \in AggregateKeys, d \in AggregateDefaults, cfg \in AggregateSlotConfigs :
        State_init(key, d, cfg)
AggregateDoSet == \E key \in AggregateKeys, v \in AggregateValues : Element_set(key, v)
AggregateDoComponent ==
    /\ Len(components) < MaxComponents
    /\ StateComponent_constructor("own", "none", << >>)

AggregateNext ==
    \/ AggregateDoInit
    \/ AggregateDoSet
    \/ AggregateDoComponent

SpecAggregate == AggregateInit /\ [][AggregateNext]_vars

----------------------------------------------------------------------------
(* Specification SpecHistory: one counter slot and the whole history of    *)
(* its sets and of the hook invocations they caused, up to MaxSets sets.    *)

HistoryKeys == {"a"}

HistoryDefaults == {Num(0)}

HistoryValues == {Num(1), Num(2), Num(3), Str("x")}

HistorySlotConfigs ==
    [useLocalStorage : {FALSE}, useEvents : BOOLEAN,
     onBeforeSet : {"null", "clamp"}, useRefetchOnFocus : {TRUE}]

HistoryStateConfigs ==
    [useChangeEvent : BOOLEAN, prefix : {""}, useRefetchOnFocus : {TRUE}]

HistoryInit ==
    /\ \E cfg \in HistoryStateConfigs : State_constructor(cfg)
    /\ localStorage = << >>
    /\ written = << >>
    /\ recording = TRUE

HistoryDoInit ==
    \E key \in HistoryKeys, d \in HistoryDefaults, cfg \in HistorySlotConfigs :
        State_init(key, d, cfg)
HistoryDoSet ==
    /\ Len(setLog) < MaxSets
    /\ \E key \in HistoryKeys, v \in HistoryValues : Element_set(key, v)
HistoryDoReset ==
    /\ Len(setLog) < MaxSets
    /\ \E key \in HistoryKeys : Element_reset(key)
HistoryDoComponent ==
    /\ Len(components) < MaxComponents
    /\ \/ StateComponent_constructor("own", "list", << "a" >>)
       \/ StateComponent_constructor("own", "none", << >>)

HistoryNext ==
    \/ HistoryDoInit
    \/ HistoryDoSet
    \/ HistoryDoReset
    \/ HistoryDoComponent

SpecHistory == HistoryInit /\ [][HistoryNext]_vars

----------------------------------------------------------------------------
(* Specification SpecReentrant: two number slots, one of them keyed like   *)
(* the aggregate channel, and up to two listening components, some of      *)
(* which call set from inside their hook.                                  *)

ReentrantKeys == {"a", "change"}

ReentrantDefaults == {Num(0)}

ReentrantValues == {Num(3)}

ReentrantSlotConfigs ==
    [useLocalStorage : {FALSE}, useEvents : BOOLEAN,
     onBeforeSet : {"null"}, useRefetchOnFocus : {TRUE}]

ReentrantStateConfigs ==
    [useChangeEvent : BOOLEAN, prefix : {""}, useRefetchOnFocus : {TRUE}]

ReentrantClasses == {"own", "setter"}

ReentrantInit ==
    /\ \E cfg \in ReentrantStateConfigs : State_constructor(cfg)
    /\ localStorage = << >>
    /\ written = << >>
    /\ recording = FALSE

ReentrantDoInit ==
    \E key \in ReentrantKeys, d \in ReentrantDefaults, cfg \in ReentrantSlotConfigs :
        State_init(key, d, cfg)
ReentrantDoSet == \E key \in ReentrantKeys, v \in ReentrantValues : Element_set(key, v)
ReentrantDoReset == \E key \in ReentrantKeys : Element_reset(key)
ReentrantDoComponent ==
    /\ Len(components) < MaxComponents + 1
    /\ \E cls \in ReentrantClasses :
        \/ \E key \in ReentrantKeys : StateComponent_constructor(cls, "list", << key >>)
        \/ StateComponent_constructor(cls, "none", << >>)

ReentrantNext ==
    \/ ReentrantDoInit
    \/ ReentrantDoSet
    \/ ReentrantDoReset
    \/ ReentrantDoComponent

SpecReentrant == ReentrantInit /\ [][ReentrantNext]_vars

----------------------------------------------------------------------------
(* Specification SpecInit: one slot registered again and again over page   *)
(* reloads, with or without a persisted string, events and listeners.      *)

InitKeys == {"a"}

InitDefaults == {Num(2), Str("x"), Obj("{a:1}")}

InitValues == {Num(3), Str(""), Obj("null")}

InitSlotConfigs ==
    [useLocalStorage : BOOLEAN, useEvents : BOOLEAN,
     onBeforeSet : {"null", "clamp"}, useRefetchOnFocus : {TRUE}]

InitStateConfigs ==
    [useChangeEvent : BOOLEAN, prefix : {"app"}, useRefetchOnFocus : {TRUE}]

InitInit ==
    /\ \E cfg \in InitStateConfigs : State_constructor(cfg)
    /\ localStorage = << >>
    /\ written = << >>
    /\ recording = FALSE

InitDoInit ==
    \E key \in InitKeys, d \in InitDefaults, cfg \in InitSlotConfigs :
        State_init(key, d, cfg)
InitDoSet == \E key \in InitKeys, v \in InitValues : Element_set(key, v)
InitDoComponent ==
    /\ Len(components) < MaxComponents
    /\ \/ StateComponent_constructor("own", "all", << >>)
       \/ StateComponent_constructor("own", "none", << >>)
InitDoReload == \E cfg \in InitStateConfigs : Reload(cfg)

InitNext ==
    \/ InitDoInit
    \/ InitDoSet
    \/ InitDoComponent
    \/ InitDoReload

SpecInit == InitInit /\ [][InitNext]_vars

----------------------------------------------------------------------------
(* Specification SpecHook: one number or string slot with any of the       *)
(* hooks, persisted or not, with or without events, set and reset.         *)

HookKeys == {"a"}

HookDefaults == {Num(2), Str("")}

HookValues == {Num(3), Str("y")}

HookSlotConfigs ==
    [useLocalStorage : BOOLEAN, useEvents : BOOLEAN,
     onBeforeSet : BeforeSetHooks, useRefetchOnFocus : {TRUE}]

HookStateConfigs ==
    [useChangeEvent : BOOLEAN, prefix : {"app"}, useRefetchOnFocus : {TRUE}]

HookInit ==
    /\ \E cfg \in HookStateConfigs : State_constructor(cfg)
    /\ localStorage = << >>
    /\ written = << >>
    /\ recording = FALSE

HookDoInit ==
    \E key \in HookKeys, d \in HookDefaults, cfg \in HookSlotConfigs :
        State_init(key, d, cfg)
HookDoSet == \E key \in HookKeys, v \in HookValues : Element_set(key, v)
HookDoReset == \E key \in HookKeys : Element_reset(key)

HookNext ==
    \/ HookDoInit
    \/ HookDoSet
    \/ HookDoReset

SpecHook == HookInit /\ [][HookNext]_vars

----------------------------------------------------------------------------
(* Specification SpecClasses: one number slot and components of any class  *)
(* and binding mode, with the history of the events and hook invocations.  *)

ClassesKeys == {"a"}

ClassesDefaults == {Num(0)}

ClassesValues == {Num(3)}

ClassesSlotConfigs ==
    [useLocalStorage : {FALSE}, useEvents : BOOLEAN,
     onBeforeSet : {"null"}, useRefetchOnFocus : {TRUE}]

ClassesStateConfigs ==
    [useChangeEvent : BOOLEAN, prefix : {""}, useRefetchOnFocus : {TRUE}]

ClassesModes == {"all", "list", "none"}

ClassesClasses == ComponentClasses \ {"setter"}

ClassesInit ==
    /\ \E cfg \in ClassesStateConfigs : State_constructor(cfg)
    /\ localStorage = << >>
    /\ written = << >>
    /\ recording = TRUE

ClassesDoInit ==
    \E key \in ClassesKeys, d \in ClassesDefaults, cfg \in ClassesSlotConfigs :
        State_init(key, d, cfg)
ClassesDoSet ==
    /\ Len(setLog) < MaxSets
    /\ \E key \in ClassesKeys, v \in ClassesValues : Element_set(key, v)
ClassesDoReset ==
    /\ Len(setLog) < MaxSets
    /\ \E key \in ClassesKeys : Element_reset(key)
ClassesDoComponent ==
    /\ Len(components) < MaxComponents
    /\ \E cls \in ClassesClasses, mode \in ClassesModes :
            StateComponent_constructor(cls, mode,
                                       IF mode = "list" THEN << "a" >> ELSE << >>)

ClassesNext ==
    \/ ClassesDoInit
    \/ ClassesDoSet
    \/ ClassesDoReset
    \/ ClassesDoComponent

SpecClasses == ClassesInit /\ [][ClassesNext]_vars

----------------------------------------------------------------------------
(* Specification SpecFocus: a number slot "b" and a bigint or object slot  *)
(* "a", persisted or not, registered in either order, strings written to   *)
(* the store by another page, and focus events.                            *)

FocusKeys == {"a", "b"}

FocusDefaults == {Num(2), BigInt(1), Obj("{a:1}")}

FocusWrites == {Num(3), Str("x")}

FocusSlotConfigs ==
    [useLocalStorage : BOOLEAN, useEvents : {TRUE},
     onBeforeSet : {"null", "clamp"}, useRefetchOnFocus : BOOLEAN]

FocusStateConfigs ==
    [useChangeEvent : {TRUE}, prefix : {""}, useRefetchOnFocus : BOOLEAN]

FocusInit ==
    /\ \E cfg \in FocusStateConfigs : State_constructor(cfg)
    /\ localStorage = << >>
    /\ written = << >>
    /\ recording = FALSE

FocusDoInit ==
    \E d \in FocusDefaults, cfg \in FocusSlotConfigs :
        State_init(IF TypeOf(d) = "number" THEN "b" ELSE "a", d, cfg)
FocusDoWrite == \E key \in FocusKeys, v \in FocusWrites : OtherPage_set(key, v)
FocusDoFocus == onFocus

FocusNext ==
    \/ FocusDoInit
    \/ FocusDoWrite
    \/ FocusDoFocus

SpecFocus == FocusInit /\ [][FocusNext]_vars

----------------------------------------------------------------------------
(* Specification SpecTabs: two pages over one store and one prefix, each   *)
(* with a persisted, refetching, hook-less slot "a"; this page's sets, the *)
(* other page's sets, and focus events on this page.                       *)

TabsKeys == {"a"}

TabsDefaults == {Str("x"), Num(2), Bool(TRUE), Obj("{a:1}")}

TabsValues == {Str(""), Num(3), Bool(FALSE), Bool(TRUE), Obj("null")}

TabsSlotConfigs ==
    [useLocalStorage : {TRUE}, useEvents : BOOLEAN,
     onBeforeSet : {"null"}, useRefetchOnFocus : {TRUE}]

TabsStateConfigs ==
    [useChangeEvent : {FALSE}, prefix : {"app"}, useRefetchOnFocus : {TRUE}]

TabsInit ==
    /\ \E cfg \in TabsStateConfigs : State_constructor(cfg)
    /\ localStorage = << >>
    /\ written = << >>
    /\ recording = FALSE

TabsDoInit ==
    \E key \in TabsKeys, d \in TabsDefaults, cfg \in TabsSlotConfigs :
        State_init(key, d, cfg)
TabsDoSet == \E key \in TabsKeys, v \in TabsValues : Element_set(key, v)
TabsDoWrite == \E key \in TabsKeys, v \in TabsValues : OtherPage_set(key, v)
TabsDoFocus == onFocus

TabsNext ==
    \/ TabsDoInit
    \/ TabsDoSet
    \/ TabsDoWrite
    \/ TabsDoFocus

SpecTabs == TabsInit /\ [][TabsNext]_vars

----------------------------------------------------------------------------
(* Claims.                                                                 *)

\* C1: on a slot of kind K, StateElement.set with a value of kind K succeeds
\* and StateElement.set with a value of any other kind fails with a type
\* mismatch.
C1_SetChecksKind ==
    last.op = "set" =>
        LET el == ElementOf(last.key)
        IN  /\ TypeOf(last.value) = el.type => last.err = ""
            /\ TypeOf(last.value) # el.type => last.err = "TypeMismatch"

\* A set of a number on a bigint slot was rejected.
C1_Witness ==
    /\ last.op = "set"
    /\ last.err = "TypeMismatch"
    /\ ElementOf(last.key).type = "bigint"
    /\ TypeOf(last.value) = "number"

\* C2 (as claimed): a value of kind string, number, boolean or object that was
\* persisted under a key comes back equal when a fresh State initializes a
\* slot of that kind under the same key and prefix.
C2_RoundTrip ==
    [][LET key == last'.key
           skey == prefixKey(key)
           el == elements'[Len(elements')]
       IN  ( /\ last'.op = "init"
             /\ last'.err = ""
             /\ el.config.useLocalStorage
             /\ skey \in DOMAIN written
             /\ TypeOf(written[skey]) = el.type
             /\ el.type \in {"string", "number", "boolean", "object"} )
           => MapGet(storage', key) = written[skey]]_vars

\* C3 (as claimed): after reset(), get() is the defaultValue given at init,
\* whatever the slot's configuration.
C3_ResetRestoresDefault ==
    last.op = "reset" => State_get(last.key) = ElementOf(last.key).defaultValue

\* C3 (amended): reset() always succeeds and get() is then the defaultValue
\* passed through the slot's onBeforeSet hook; it is the defaultValue itself
\* when the slot has no hook.
C3_ResetStoresHookedDefault ==
    last.op = "reset" =>
        LET el == ElementOf(last.key)
        IN  /\ last.err = ""
            /\ State_get(last.key) = onBeforeSet(el.config.onBeforeSet, el.defaultValue)
            /\ el.config.onBeforeSet = "null" => State_get(last.key) = el.defaultValue

\* A persisted slot whose hook clamps its default was reset.
C3_Witness ==
    /\ last.op = "reset"
    /\ ElementOf(last.key).config.onBeforeSet = "clamp"
    /\ ElementOf(last.key).config.useLocalStorage
    /\ State_get(last.key) # ElementOf(last.key).defaultValue
----------------------------------------------------------------------------
(* Vocabulary of the claims about components.                              *)

Range(seq) == {seq[i] : i \in 1..Len(seq)}

Count(seq, x) == Cardinality({i \in 1..Len(seq) : seq[i] = x})

\* The hook invocations made during the completed set e, and those of them
\* made on component c.
CallsIn(log, e) == SubSeq(log, e.from + 1, e.to)
CallsTo(c, calls) == SelectSeq(calls, LAMBDA call : call.comp = c)

\* The sets completed by the operation performed last.
LastSetIndices == (last.smark + 1)..Len(setLog)

\* Component c was constructed, by a class that defines $onStateChange itself.
Listens(c) == components[c].constructed /\ Overrides(components[c].cls)

BoundListeners == {c \in 1..Len(components) :
                        Listens(c) /\ components[c].mode \in {"list", "all"}}

AggregateListeners == {c \in 1..Len(components) :
                        Listens(c) /\ components[c].mode = "none" /\ config.useChangeEvent}

\* C5 (as claimed): a component bound to a key list or to all slots gets
\* exactly one $onStateChange(key, value) per set on a bound key, with the
\* key and the value of that set.
C5_OneCallPerSet ==
    \A c \in BoundListeners : \A i \in LastSetIndices :
        LET e == setLog[i]
        IN  e.key \in Range(components[c].states) =>
                CallsTo(c, CallsIn(hookLog, e)) = << HookCall(c, Str(e.key), Plain(e.value)) >>

\* C5 (amended): for each completed set on a bound key whose slot has
\* useEvents, the component gets exactly one $onStateChange(key, stored) per
\* occurrence of the key in the list it was given, stored being the value
\* committed (after onBeforeSet); for a slot without useEvents it gets none.
\* The only other calls it gets are those of its listener on a slot keyed
\* "change", which the aggregate event of the same set reaches as well.
C5_OneCallPerListenerAndEventfulSet ==
    \A c \in BoundListeners : \A i \in LastSetIndices :
        LET e == setLog[i]
            mine == CallsTo(c, CallsIn(hookLog, e))
            useEvents == ElementOf(e.key).config.useEvents
        IN  e.key \in Range(components[c].states) =>
                /\ Count(mine, HookCall(c, Str(e.key), Plain(e.stored)))
                      = IF useEvents THEN Count(components[c].given, e.key) ELSE 0
                /\ ~useEvents => mine = << >>
                /\ \A j \in 1..Len(mine) :
                      \/ mine[j] = HookCall(c, Str(e.key), Plain(e.stored))
                      \/ /\ mine[j] = HookCall(c, Str("change"), Pair(e.key, e.stored))
                         /\ "change" \in Range(components[c].states)
                         /\ config.useChangeEvent

\* A component given the list <<"a", "a">> saw a set of 3, clamped to 1, on
\* slot "a" twice.
C5_Witness ==
    /\ last.op = "set" /\ last.key = "a" /\ last.value = Num(3)
    /\ \E c \in BoundListeners :
        /\ components[c].given = << "a", "a" >>
        /\ CallsTo(c, LastCalls) = << HookCall(c, Str("a"), Plain(Num(1))),
                                      HookCall(c, Str("a"), Plain(Num(1))) >>

C7_AggregateHearsEverySet ==
    \A c \in AggregateListeners : \A i \in LastSetIndices :
        CallsTo(c, CallsIn(hookLog, setLog[i])) # << >>

\* C7 (amended): it gets a call $onStateChange(key, stored) for every
\* completed set or reset of every slot that has useEvents, whenever the slot
\* was registered.
C7_AggregateHearsEveryEventfulSet ==
    \A c \in AggregateListeners : \A i \in LastSetIndices :
        LET e == setLog[i]
        IN  ElementOf(e.key).config.useEvents =>
                Count(CallsTo(c, CallsIn(hookLog, e)),
                      HookCall(c, Str(e.key), Plain(e.stored))) >= 1

\* An aggregate listener got the reset of a slot registered after it was
\* constructed.
C7_Witness ==
    /\ last.op = "reset" /\ last.key = "a"
    /\ \E c \in AggregateListeners :
        /\ "a" \notin components[c].known
        /\ CallsTo(c, LastCalls) = << HookCall(c, Str("a"), Plain(Num(1))) >>

\* C4: a key is registered at most once; init on a registered key fails and
\* leaves the registered elements, the in-memory values, the persisted
\* strings and the listeners as they were; attach fails on a key that was
\* never initialized (and only then).
C4_InitOnceAttachKnown ==
    [][/\ (last'.op = "init" /\ HasElement(last'.key)) =>
            /\ last'.err = "AlreadyInitialized"
            /\ UNCHANGED << elements, storage, localStorage, listeners >>
       /\ last'.op = "attach" => (last'.err = "NotInitialized" <=> ~HasElement(last'.key))
       /\ last'.op = "attach" => last'.err \in {"", "NotInitialized"}
       /\ \A i, j \in 1..Len(elements') :
            elements'[i].key = elements'[j].key => i = j]_vars

\* A second init of a persisted slot that has a listener was rejected.
C4_Witness ==
    /\ last.op = "init"
    /\ last.err = "AlreadyInitialized"
    /\ HasItem(localStorage, prefixKey(last.key))
    /\ \E i \in 1..Len(listeners) : listeners[i].type = last.key

\* The string persisted for key is the same before and after the step.
SamePersisted(key) ==
    /\ HasItem(localStorage', prefixKey(key)) <=> HasItem(localStorage, prefixKey(key))
    /\ HasItem(localStorage, prefixKey(key)) =>
            localStorage'[prefixKey(key)] = localStorage[prefixKey(key)]

\* C9 (as claimed): $resetAll() leaves every slot bound in states with its
\* default value, and every other slot with the in-memory value and the
\* persisted string it had.
C9_ResetAllRestoresDefaults ==
    [][last'.op = "resetAll" =>
        \A key \in ElementKeys :
            IF key \in Range(components[last'.comp].states)
            THEN MapGet(storage', key) = ElementOf(key).defaultValue
            ELSE MapGet(storage', key) = MapGet(storage, key) /\ SamePersisted(key)]_vars

\* C9 (amended): $resetAll() leaves every slot bound in states with its
\* default value passed through the slot's onBeforeSet hook (the default
\* itself for a slot without a hook), and every other slot with the
\* in-memory value and the persisted string it had.
C9_ResetAllResetsBoundOnly ==
    [][last'.op = "resetAll" =>
        \A key \in ElementKeys :
            LET el == ElementOf(key)
            IN  IF key \in Range(components[last'.comp].states)
                THEN /\ MapGet(storage', key) = onBeforeSet(el.config.onBeforeSet, el.defaultValue)
                     /\ el.config.onBeforeSet = "null" => MapGet(storage', key) = el.defaultValue
                ELSE MapGet(storage', key) = MapGet(storage, key) /\ SamePersisted(key)]_vars

\* $resetAll() of a component bound to "a" alone: "a" is back at its default
\* and the persisted slot "b", set to 3 before, still holds 3.
C9_Witness ==
    /\ last.op = "resetAll"
    /\ components[last.comp].states = << "a" >>
    /\ State_get("a") = Num(2)
    /\ HasElement("b") /\ State_get("b") = Num(3)
    /\ HasItem(localStorage, prefixKey("b"))
    /\ LastSets # << >>

Hearers(key) ==
    {c \in BoundListeners : Count(components[c].given, key) = 1
                            /\ key \in Range(components[c].states)}
    \cup AggregateListeners

\* The sets on key completed since component c was constructed, in order.
SetsSince(c, key) ==
    SelectSeq(SubSeq(setLog, components[c].smark + 1, Len(setLog)),
              LAMBDA e : e.key = key)

\* The hook invocations made on component c since it was constructed.
CallsSince(c) == CallsTo(c, SubSeq(hookLog, components[c].hmark + 1, Len(hookLog)))

\* C10 (as claimed): n successive StateElement.set calls with values v1..vn
\* on a slot with useEvents produce exactly n hook invocations carrying
\* v1..vn in that order, and get() afterwards equals vn.
C10_CallsCarrySetValuesInOrder ==
    \A key \in HistoryKeys :
        (HasElement(key) /\ ElementOf(key).config.useEvents) =>
            /\ \A c \in Hearers(key) :
                 LET sets == SetsSince(c, key)
                 IN  CallsSince(c)
                       = [i \in 1..Len(sets) |-> HookCall(c, Str(key), Plain(sets[i].value))]
            /\ \A i \in 1..Len(setLog) :
                 (setLog[i].key = key /\ \A j \in (i + 1)..Len(setLog) : setLog[j].key # key)
                    => State_get(key) = setLog[i].value

\* C10 (amended): n successive completed StateElement.set calls on a slot
\* with useEvents produce exactly n hook invocations, in the order of the
\* sets, each carrying the value its set stored (the supplied value after
\* onBeforeSet), and get() afterwards equals the value the last set stored.
C10_CallsCarryStoredValuesInOrder ==
    \A key \in HistoryKeys :
        (HasElement(key) /\ ElementOf(key).config.useEvents) =>
            /\ \A c \in Hearers(key) :
                 LET sets == SetsSince(c, key)
                 IN  CallsSince(c)
                       = [i \in 1..Len(sets) |-> HookCall(c, Str(key), Plain(sets[i].stored))]
            /\ \A i \in 1..Len(setLog) :
                 (setLog[i].key = key /\ \A j \in (i + 1)..Len(setLog) : setLog[j].key # key)
                    => State_get(key) = setLog[i].stored

\* Three sets of 1, 2, 3 on the counter, heard by a component as 1, 2, 3 in
\* that order, and the counter holds 3.
C10_Witness ==
    /\ Len(setLog) = 3
    /\ \A i \in 1..3 : setLog[i].via = "set" /\ setLog[i].value = Num(i)
    /\ State_get("a") = Num(3)
    /\ \E c \in Hearers("a") :
            CallsSince(c) = [i \in 1..3 |-> HookCall(c, Str("a"), Plain(Num(i)))]
\* The events dispatched during the completed set e.
EventsIn(e) == SubSeq(eventLog, e.efrom + 1, e.eto)

\* C11: a set on a slot without useEvents dispatches neither the per-key
\* event nor the aggregate event, whatever useChangeEvent is; a set on a slot
\* with useEvents dispatches the per-key event, and the aggregate event if
\* and only if the State has useChangeEvent.
C11_EventsGatedByUseEvents ==
    \A i \in LastSetIndices :
        LET e == setLog[i]
            events == EventsIn(e)
            perKey == Event(e.key, Plain(e.stored))
            aggregate == Event("change", Pair(e.key, e.stored))
        IN  IF ElementOf(e.key).config.useEvents
            THEN /\ Count(events, perKey) = 1
                 /\ Count(events, aggregate) = IF config.useChangeEvent THEN 1 ELSE 0
                 /\ (\E j \in 1..Len(events) : events[j].detail.pair) <=> config.useChangeEvent
                 /\ Len(events) = IF config.useChangeEvent THEN 2 ELSE 1
            ELSE events = << >>

\* On a State with useChangeEvent and an aggregate listener, a set on a slot
\* without useEvents completed and dispatched nothing.
C11_Witness ==
    /\ last.op = "set" /\ last.err = ""
    /\ config.useChangeEvent
    /\ ~ElementOf(last.key).config.useEvents
    /\ AggregateListeners # {}
    /\ LastSets # << >>
    /\ LastEvents = << >>
\* C12: for a registered slot with useLocalStorage, after init and after
\* every set, reset and focus pass, the string persisted under the prefixed
\* key is the serialization of the value the slot holds; for a slot without
\* useLocalStorage no operation calls getItem or setItem on its key.
C12_PersistedIsSerializedValue ==
    \A i \in 1..Len(elements) :
        LET el == elements[i]
            skey == prefixKey(el.key)
        IN  IF el.config.useLocalStorage
            THEN /\ HasItem(localStorage, skey)
                 /\ localStorage[skey] = valueToString(State_get(el.key))
            ELSE \A a \in accessed : a.skey # skey

\* A reset of a persisted slot whose hook clamps the default of 2: the slot
\* holds 1 and the string "1" was written.
C12_Witness ==
    /\ last.op = "reset" /\ last.err = ""
    /\ ElementOf(last.key).config.useLocalStorage
    /\ ElementOf(last.key).defaultValue = Num(2)
    /\ State_get(last.key) = Num(1)
    /\ localStorage[prefixKey(last.key)] = "1"
    /\ Access("setItem", prefixKey(last.key)) \in accessed
\* C13: whenever the hook is invoked with (key, value), state.get(key)
\* returns the delivered value at that moment, for every number of listeners
\* and also when a listener itself calls set on the same slot.
C13_DeliveredIsHeld ==
    \A j \in 1..Len(hookLog) :
        (hookLog[j].key.kind = "string" /\ ~hookLog[j].value.pair) =>
            heldLog[j] = hookLog[j].value.value
\* The positions in hookLog of the invocations made for the completed set
\* setLog[i] itself: those made while it ran, less those made for a set
\* that a hook called meanwhile.
OwnCalls(i) ==
    {p \in (setLog[i].from + 1)..setLog[i].to :
        \A n \in 1..(i - 1) :
            ~(setLog[n].from >= setLog[i].from /\ setLog[n].from < p /\ p <= setLog[n].to)}

\* C14: within one set on a slot with useEvents, on a State with
\* useChangeEvent, every per-key listener of the key is invoked before any
\* aggregate listener is invoked for that set.
C14_PerKeyBeforeAggregate ==
    \A i \in LastSetIndices :
        LET e == setLog[i]
        IN  (ElementOf(e.key).config.useEvents /\ config.useChangeEvent) =>
                \A p, q \in OwnCalls(i) :
                    (/\ components[hookLog[p].comp].mode = "none"
                     /\ components[hookLog[q].comp].mode # "none"
                     /\ hookLog[q].key = Str(e.key)
                     /\ ~hookLog[q].value.pair) => q < p
\* C15: a completed init stores the resolved initial value (the decoded
\* persisted string if the slot has useLocalStorage and one is present, the
\* default otherwise), dispatches no event and invokes no listener,
\* whatever useEvents and useChangeEvent are.
C15_InitFiresNothing ==
    [][(last'.op = "init" /\ last'.err = "") =>
        LET el == elements'[Len(elements')]
            skey == prefixKey(el.key)
            resolved == IF el.config.useLocalStorage /\ HasItem(localStorage, skey)
                        THEN valueFromString(localStorage[skey], el.type, symCount + 1)
                        ELSE el.defaultValue
        IN  /\ el.key = last'.key
            /\ Len(elements') = Len(elements) + 1
            /\ MapGet(storage', el.key) = resolved
            /\ eventLog' = << >>
            /\ hookLog' = << >>]_vars

\* On a State with useChangeEvent and an aggregate listener, a slot with
\* useEvents was initialized from a persisted 3 over its default of 2, and
\* nothing was heard.
C15_Witness ==
    /\ last.op = "init" /\ last.err = ""
    /\ config.useChangeEvent /\ AggregateListeners # {}
    /\ ElementOf(last.key).config.useEvents
    /\ ElementOf(last.key).defaultValue = Num(2)
    /\ State_get(last.key) = Num(3)
    /\ LastEvents = << >> /\ LastCalls = << >>
\* What a focus pass finds for element el in the state it starts from: the
\* slot has both flags and a persisted string, and the value that string
\* decodes to for the slot's kind.
Eligible(el) ==
    /\ el.config.useLocalStorage /\ el.config.useRefetchOnFocus
    /\ HasItem(localStorage, prefixKey(el.key))

Decoded(el) == valueFromString(localStorage[prefixKey(el.key)], el.type, symCount + 1)

\* The events of log that name key: its per-key event and the aggregate
\* events carrying it.
EventsAbout(log, key) ==
    SelectSeq(log, LAMBDA ev : ev.type = key \/ (ev.detail.pair /\ ev.detail.key = key))

\* C16 (as claimed): on a focus event every slot with both flags and a
\* persisted string holds the decoded string afterwards; every other slot
\* keeps its value and emits no event.
C16_FocusAppliesDecoded ==
    [][last'.op = "focus" =>
        \A i \in 1..Len(elements) :
            LET el == elements[i]
            IN  IF Eligible(el)
                THEN MapGet(storage', el.key) = Decoded(el)
                ELSE /\ MapGet(storage', el.key) = MapGet(storage, el.key)
                     /\ EventsAbout(eventLog', el.key) = << >>]_vars

\* C16 (amended): on a focus event on a State whose own useRefetchOnFocus is
\* set, for every slot with both flags and a persisted string the string is
\* decoded by the slot's kind and given to StateElement.set; when the decoded
\* value is of the slot's kind the slot then holds onBeforeSet of it, that
\* value is persisted again and the events of a set are dispatched. Every
\* other slot (a flag missing, no string, a decoding that throws, a decoded
\* value of another kind, or a State without the flag) keeps its value and
\* its persisted string and emits no event.
C16_FocusSetsDecoded ==
    [][last'.op = "focus" =>
        \A i \in 1..Len(elements) :
            LET el == elements[i]
                applies == /\ config.useRefetchOnFocus /\ Eligible(el)
                           /\ ~IsThrown(Decoded(el)) /\ TypeOf(Decoded(el)) = el.type
                stored == onBeforeSet(el.config.onBeforeSet, Decoded(el))
                events == EventsAbout(eventLog', el.key)
            IN  IF applies
                THEN /\ MapGet(storage', el.key) = stored
                     /\ localStorage'[prefixKey(el.key)] = valueToString(stored)
                     /\ events = (IF el.config.useEvents
                                  THEN << Event(el.key, Plain(stored)) >>
                                       \o (IF config.useChangeEvent
                                           THEN << Event("change", Pair(el.key, stored)) >>
                                           ELSE << >>)
                                  ELSE << >>)
                ELSE /\ MapGet(storage', el.key) = MapGet(storage, el.key)
                     /\ SamePersisted(el.key)
                     /\ events = << >>]_vars

\* A focus pass took the 3 another page had written for slot "b" through the
\* clamping hook, so that "b" holds 1 and "1" is persisted, and left slot
\* "a", which has no useRefetchOnFocus, and its string alone.
C16_Witness ==
    /\ last.op = "focus"
    /\ HasElement("b") /\ ElementOf("b").config.onBeforeSet = "clamp"
    /\ State_get("b") = Num(1) /\ localStorage[prefixKey("b")] = "1"
    /\ Access("setItem", prefixKey("b")) \in accessed
    /\ HasElement("a") /\ ElementOf("a").config.useLocalStorage
    /\ ~ElementOf("a").config.useRefetchOnFocus
    /\ localStorage[prefixKey("a")] = "x"
    /\ Access("getItem", prefixKey("a")) \notin accessed

\* C17: in a focus pass a failure for one slot (a decoding that throws, a
\* set rejected for the kind of the decoded value) is caught: the handler
\* does not fail, the failing slot keeps the value it held, and every other
\* slot with both flags is still read and, if its string decodes to its
\* kind, set.
C17_FocusFailureIsContained ==
    [][(last'.op = "focus" /\ config.useRefetchOnFocus) =>
        /\ last'.err = ""
        /\ \A i \in 1..Len(elements) :
            LET el == elements[i]
                fails == IsThrown(Decoded(el)) \/ TypeOf(Decoded(el)) # el.type
            IN  /\ (el.config.useLocalStorage /\ el.config.useRefetchOnFocus) =>
                        Access("getItem", prefixKey(el.key)) \in accessed'
                /\ Eligible(el) =>
                        IF fails
                        THEN MapGet(storage', el.key) = MapGet(storage, el.key)
                        ELSE MapGet(storage', el.key)
                                = onBeforeSet(el.config.onBeforeSet, Decoded(el))]_vars

\* A focus pass met the object slot "a", registered first, with the string
\* "x", which JSON.parse rejects, and went on to set the number slot "b" to
\* the 3 persisted for it.
C17_Witness ==
    /\ last.op = "focus" /\ last.err = ""
    /\ Len(elements) = 2
    /\ elements[1].key = "a" /\ elements[1].type = "object"
    /\ elements[1].config.useLocalStorage /\ elements[1].config.useRefetchOnFocus
    /\ localStorage[prefixKey("a")] = "x"
    /\ State_get("a") = Obj("{a:1}")
    /\ Access("getItem", prefixKey("a")) \in accessed
    /\ State_get("b") = Num(3)
    /\ Access("setItem", prefixKey("b")) \in accessed
\* C18: a set or reset on a slot with an onBeforeSet hook stores the hook's
\* return value in place of the supplied value, persists that value and
\* carries it in the per-key and the aggregate event; the type check is made
\* on the supplied value alone, before the hook.
C18_HookResultIsStoredPersistedSent ==
    /\ \A i \in LastSetIndices :
        LET e == setLog[i]
            el == ElementOf(e.key)
            result == onBeforeSet(el.config.onBeforeSet, e.value)
            events == EventsIn(e)
        IN  /\ TypeOf(e.value) = el.type
            /\ State_get(e.key) = result
            /\ el.config.useLocalStorage =>
                    localStorage[prefixKey(e.key)] = valueToString(result)
            /\ \A j \in 1..Len(events) : events[j].detail.value = result
            /\ el.config.useEvents => events # << >>
    /\ (last.op = "set" /\ HasElement(last.key)) =>
            (last.err = "TypeMismatch" <=> TypeOf(last.value) # ElementOf(last.key).type)
    /\ (last.op \in {"set", "reset"} /\ last.err = "") => LastSets # << >>

\* A set of 3 on a persisted number slot whose hook returns the string "x":
\* the slot holds "x", "x" is persisted and both events carry "x".
C18_Witness ==
    /\ last.op = "set" /\ last.err = "" /\ last.value = Num(3)
    /\ HasElement(last.key)
    /\ ElementOf(last.key).type = "number"
    /\ ElementOf(last.key).config.onBeforeSet = "label"
    /\ State_get(last.key) = Str("x")
    /\ ElementOf(last.key).config.useLocalStorage
    /\ prefixKey(last.key) \in DOMAIN localStorage
    /\ localStorage[prefixKey(last.key)] = "x"
    /\ LastEvents = << Event(last.key, Plain(Str("x"))),
                       Event("change", Pair(last.key, Str("x"))) >>
\* C19: a component whose own class does not itself define $onStateChange
\* (the hook is StateComponent's, an intermediate class's, or assigned to
\* the instance after construction) has no per-key and no aggregate
\* listener in any binding mode, and its hook is invoked by no set.
C19_NoOwnHookNoListener ==
    \A c \in 1..Len(components) :
        components[c].cls \in {"base", "inherited", "assigned"} =>
            /\ \A i \in 1..Len(listeners) : listeners[i].comp # c
            /\ \A i \in 1..Len(hookLog) : hookLog[i].comp # c

\* A set that dispatched its per-key and its aggregate event while a
\* component that inherits the hook was bound to the slot: no hook ran.
C19_Witness ==
    /\ Len(components) = 1
    /\ components[1].cls = "inherited" /\ components[1].constructed
    /\ components[1].states = << "a" >>
    /\ last.op = "set" /\ last.err = ""
    /\ Len(LastEvents) = 2
    /\ hookLog = << >>
\* C20: in every reachable state, every registered slot without an
\* onBeforeSet hook holds a value whose kind is the slot's recorded type,
\* slots of kind bigint or symbol that loaded or resynced a persisted value
\* included.
C20_HeldKindIsRecordedType ==
    \A i \in 1..Len(elements) :
        elements[i].config.onBeforeSet = "null" =>
            TypeOf(State_get(elements[i].key)) = elements[i].type
\* C21: event channels are isolated by key, whatever the keys of the
\* registered slots are: every hook invocation caused by a set on slot k,
\* through a per-key listener or through the aggregate handler, names k and
\* carries the value the set stored in slot k.
C21_ChannelsIsolatedByKey ==
    \A i \in LastSetIndices :
        LET e == setLog[i]
            calls == CallsIn(hookLog, e)
        IN  \A j \in 1..Len(calls) :
                /\ calls[j].key = Str(e.key)
                /\ calls[j].value = Plain(e.stored)
\* C22: a StateElement.set rejected with a type mismatch has no effect: the
\* in-memory values, the persisted strings and the registrations stay as
\* they were, onBeforeSet is not called, the persistent store is not
\* touched, no event is dispatched and no listener is invoked.
C22_RejectedSetHasNoEffect ==
    [][(last'.op = "set" /\ last'.err = "TypeMismatch") =>
            /\ storage' = storage
            /\ localStorage' = localStorage
            /\ elements' = elements
            /\ listeners' = listeners
            /\ hooked' = {}
            /\ accessed' = {}
            /\ LastEvents' = << >>
            /\ LastCalls' = << >>
            /\ LastSets' = << >>]_vars

\* A set of a value of another kind, rejected, on a persisted slot with a
\* hook and events, while a component listens.
C22_Witness ==
    /\ last.op = "set" /\ last.err = "TypeMismatch"
    /\ HasElement(last.key)
    /\ TypeOf(last.value) # ElementOf(last.key).type
    /\ ElementOf(last.key).config.onBeforeSet = "clamp"
    /\ ElementOf(last.key).config.useLocalStorage
    /\ ElementOf(last.key).config.useEvents
    /\ prefixKey(last.key) \in DOMAIN localStorage
    /\ \E c \in 1..Len(components) : Listens(c)
    /\ listeners # << >>
\* C23: two pages share one store and one prefix and each has a slot of the
\* same key and kind with useLocalStorage and useRefetchOnFocus and no
\* hook; after a page has handled a focus event, its get() is the value most
\* recently set on the slot in either page, for the kinds string, number,
\* boolean and object.
C23_FocusYieldsLatestSet ==
    [][(last'.op = "focus" /\ config.useRefetchOnFocus) =>
        \A i \in 1..Len(elements) :
            LET el == elements[i]
                skey == prefixKey(el.key)
            IN  ( /\ el.config.useLocalStorage
                  /\ el.config.useRefetchOnFocus
                  /\ el.config.onBeforeSet = "null"
                  /\ skey \in DOMAIN written
                  /\ TypeOf(written[skey]) = el.type
                  /\ el.type \in {"string", "number", "boolean", "object"} )
                => MapGet(storage', el.key) = written[skey]]_vars
====
